---- MODULE Spec2Model ----
(***************************************************************************)
(* Analytical decision loop of the health platform.                        *)
(*                                                                         *)
(* The sub-systems are modelled each with its own specification:           *)
(*   SpecRun      - the per-user daily insight run (run_loop): the safety  *)
(*                  gate followed by the change / trend / instability      *)
(*                  detectors;                                             *)
(*   SpecDetect   - run_detectors for one metric and day: which candidate  *)
(*                  finding is retained;                                   *)
(*   SpecBaseline - one metric's series, its baseline and the callers      *)
(*                  that consume the baseline;                             *)
(*   SpecJobs     - the idempotency wrapper of the scheduled jobs;         *)
(*   SpecAttr     - attribution runs (run_attribution);                    *)
(*   SpecGrade    - the evidence grader (grade);                           *)
(*   SpecEval     - experiment evaluation (evaluate_experiment);           *)
(*   SpecLoop     - evaluation together with the loop orchestrator         *)
(*                  (decide_next_step).                                    *)
(*   SpecNarrate  - narration and the claim policy;                        *)
(*   SpecFeed     - the insights feed page and its silence states;         *)
(*   SpecItems    - failures of single items inside a per-user run;        *)
(*   SpecConsent  - consent, its revocation and what it guards;            *)
(*   SpecTrigger  - what starts detectors and attribution;                 *)
(*   SpecPages    - the consent and connect pages of the frontend;         *)
(*   SpecApi      - the frontend's API client and its 401 handling.        *)
(*                                                                         *)
(* The backend modules themselves (loop_runner.py, evaluation_service.py,  *)
(* loop_orchestrator.py) are described by the repository's audit and fix   *)
(* notes; behaviour those notes do not fix is taken from the design text.  *)
(* Confidence values are fixed-point: tenths for the factors, thousandths  *)
(* for their product.                                                      *)
(***************************************************************************)
EXTENDS Integers, Sequences, FiniteSets, TLC

(* ------------------------------ bounds --------------------------------- *)

\* number of times the consent form is submitted
MaxSubmits == 2

\* number of insights a feed response may carry
MaxItems == 1

\* number of texts produced for the user
MaxOutputs == 2

\* number of days each user's daily job is run for
MaxDay == 1

(* ------------------------- daily insight run --------------------------- *)

Users == {"u1", "u2"}

\* metrics of the registry, in the order the run visits them
Metrics == <<"sleep_duration", "resting_hr">>

MetricSet == {Metrics[i] : i \in 1..Len(Metrics)}

DetectorTypes == {"change", "trend", "instability"}

VARIABLES
    pc,          \* pc[u]: position of user u's daily run
    day,         \* day[u]: the day u's current (or last) run is for
    cursor,      \* cursor[u]: index of the next metric for the detectors
    gateLog,     \* safety-gate evaluations: [user, day, result, triggers]
    detectorLog, \* detector passes that ran: [user, day, metric_key]
    findings     \* persisted findings: [user, day, metric_key, type]

runVars == <<pc, day, cursor, gateLog, detectorLog, findings>>

InitRun ==
    /\ pc = [u \in Users |-> "idle"]
    /\ day = [u \in Users |-> 0]
    /\ cursor = [u \in Users |-> 1]
    /\ gateLog = {}
    /\ detectorLog = {}
    /\ findings = {}

\* fixed priority among the findings of one metric/day
Priority(t) ==
    CASE t = "safety" -> 4
      [] t = "change" -> 3
      [] t = "trend" -> 2
      [] t = "instability" -> 1

Outranks_ConfidenceFirst(c, o) ==
    \/ c.raw_confidence > o.raw_confidence
    \/ /\ c.raw_confidence = o.raw_confidence
       /\ Priority(c.type) >= Priority(o.type)

\* candidate c is retained in preference to o: higher priority, or the same
\* priority and at least o's raw_confidence
Outranks(c, o) ==
    \/ Priority(c.type) > Priority(o.type)
    \/ /\ Priority(c.type) = Priority(o.type)
       /\ c.raw_confidence >= o.raw_confidence

\* the one candidate retained among those that would fire
RetainedCandidate(cands) ==
    CHOOSE c \in cands : \A o \in cands : Outranks(c, o)

\* the finding type retained when the detectors in `fired` would all fire
Retained(fired) ==
    RetainedCandidate({[type |-> t, raw_confidence |-> 0] : t \in fired}).type

\* the scheduled daily job starts user u's run for the next day
StartRun(u) ==
    /\ pc[u] \in {"idle", "done", "aborted"}
    /\ day[u] < MaxDay
    /\ day' = [day EXCEPT ![u] = @ + 1]
    /\ pc' = [pc EXCEPT ![u] = "gate"]
    /\ cursor' = [cursor EXCEPT ![u] = 1]
    /\ UNCHANGED <<gateLog, detectorLog, findings>>

OnGateFailure_FailOpen == "detect"

\* a gate that could not be evaluated ends the day's run
OnGateFailure == "aborted"

AfterGate_NoEarlyReturn(triggers) == "detect"

\* the gate returns early when triggers are found: the run ends with the
\* safety findings only; a clear gate lets the detectors run
AfterGate(triggers) == IF triggers # {} THEN "done" ELSE "detect"

\* where the run goes after the safety gate
GateNextPc(throws, triggers) ==
    IF throws THEN OnGateFailure ELSE AfterGate(triggers)

GateResult(throws, triggers) ==
    IF throws THEN "failed"
    ELSE IF triggers # {} THEN "fired"
    ELSE "clear"

SafetyFindings(u, d, triggers) ==
    {[user |-> u, day |-> d, metric_key |-> m, type |-> "safety"] : m \in triggers}

\* the safety gate of u's run: the red-flag rules are evaluated on the raw
\* recent values of every metric before any detector runs; `triggers` are
\* the metrics with a red flag, `throws` is the gate itself failing
SafetyGate(u) ==
    /\ pc[u] = "gate"
    /\ \E throws \in BOOLEAN, triggers \in SUBSET MetricSet :
        /\ gateLog' = gateLog \cup
              {[user |-> u, day |-> day[u],
                result |-> GateResult(throws, triggers),
                triggers |-> IF throws THEN {} ELSE triggers]}
        /\ findings' = IF throws THEN findings
                       ELSE findings \cup SafetyFindings(u, day[u], triggers)
        /\ pc' = [pc EXCEPT ![u] = GateNextPc(throws, triggers)]
    /\ UNCHANGED <<day, cursor, detectorLog>>

DetectorsMayRun_BeforeGate(u) == pc[u] \in {"gate", "detect"}

\* the detectors run only in the part of the run that follows the gate
DetectorsMayRun(u) == pc[u] = "detect"

\* one detector pass: change, trend and instability run on the next metric
\* of u's run; `fired` are those that fire, and one finding is retained
RunDetectors(u) ==
    /\ DetectorsMayRun(u)
    /\ cursor[u] <= Len(Metrics)
    /\ LET m == Metrics[cursor[u]] IN
       \E fired \in SUBSET DetectorTypes :
        /\ detectorLog' = detectorLog \cup
              {[user |-> u, day |-> day[u], metric_key |-> m]}
        /\ findings' = IF fired = {} THEN findings
                       ELSE findings \cup
                            {[user |-> u, day |-> day[u], metric_key |-> m,
                              type |-> Retained(fired)]}
    /\ cursor' = [cursor EXCEPT ![u] = @ + 1]
    /\ pc' = [pc EXCEPT ![u] =
                IF cursor[u] = Len(Metrics) /\ pc[u] = "detect" THEN "done" ELSE @]
    /\ UNCHANGED <<day, gateLog>>

NextRun == \E u \in Users : StartRun(u) \/ SafetyGate(u) \/ RunDetectors(u)

(* --------------------- run_detectors, one metric/day ------------------- *)

\* raw_confidence values of candidate findings, in tenths
RawConfidences == {5, 8}

Days == 1..MaxDay

VARIABLES
    ran,      \* <<metric_key, day>> pairs run_detectors has been run for
    detected, \* Findings retained: [metric_key, day, type, raw_confidence]
    lastRun   \* the latest run_detectors call: what would fire, what it kept

detectVars == <<ran, detected, lastRun>>

NoRun == [metric_key |-> "none", day |-> 0, would_fire |-> {}, kept |-> {}]

InitDetect ==
    /\ ran = {}
    /\ detected = {}
    /\ lastRun = NoRun

\* candidate sets the gate and the detectors can produce for one metric/day:
\* each of them emits zero or one candidate
CandidateSets(types) ==
    {cs \in SUBSET [type : types, raw_confidence : RawConfidences] :
        \A c1, c2 \in cs : c1.type = c2.type => c1 = c2}

SafetyCandidateSets == CandidateSets({"safety"})

DetectorCandidateSets == CandidateSets(DetectorTypes)

\* what run_detectors keeps: the safety candidate if the gate fired (the
\* detectors' output is suppressed), else the retained detector candidate,
\* else nothing
Kept(safety, cands) ==
    IF safety # {} THEN safety
    ELSE IF cands = {} THEN {}
    ELSE {RetainedCandidate(cands)}

\* run_detectors(user_id, metric_key, day) -> Finding | None, for one user;
\* the daily job calls it once per metric and day, day after day
run_detectors(m, d) ==
    /\ <<m, d>> \notin ran
    /\ d = 1 \/ <<m, d - 1>> \in ran
    /\ \E safety \in SafetyCandidateSets, cands \in DetectorCandidateSets :
        LET kept == Kept(safety, cands) IN
        /\ detected' = detected \cup
              {[metric_key |-> m, day |-> d, type |-> c.type,
                raw_confidence |-> c.raw_confidence] : c \in kept}
        /\ lastRun' = [metric_key |-> m, day |-> d,
                       would_fire |-> safety \cup cands, kept |-> kept]
    /\ ran' = ran \cup {<<m, d>>}

NextDetect == \E m \in MetricSet, d \in Days : run_detectors(m, d)

(* ------------------------------ baselines ------------------------------ *)

\* days of one metric's daily series the model follows
MaxSeriesLen == 5

\* null: a day without a data point, a baseline without mean / std
Null == -1

\* daily values of the metric (inside its valid range)
Values == {2, 4, 6}

\* minimum sample size of a baseline, in days (the design's example is 14;
\* the series followed here are a few days long)
MinSampleSize == 2

\* days of history a baseline is computed from (scaled like MinSampleSize)
BaselineWindow == 4

\* days without data after which the wearable counts as disconnected
DisconnectDays == 2

\* days that count as recent for the insights feed
RecentDays == 7

VARIABLES
    series,   \* daily entries of one user's metric, oldest first; Null = no point
    baseline, \* the stored Baseline of that user and metric
    consumed  \* the latest use a caller made of the baseline

baselineVars == <<series, baseline, consumed>>

NoBaseline ==
    [center |-> Null, spread |-> Null, sample_size |-> 0,
     available |-> FALSE, reason |-> "insufficient_data", stale |-> FALSE]

NotConsumed ==
    [consumer |-> "none", available |-> FALSE, outcome |-> "none",
     lower |-> Null, upper |-> Null]

InitBaseline ==
    /\ series = <<>>
    /\ baseline = NoBaseline
    /\ consumed = NotConsumed

Max(a, b) == IF a >= b THEN a ELSE b

Abs(x) == IF x >= 0 THEN x ELSE 0 - x

\* the last n entries of s
LastEntries(s, n) == SubSeq(s, Max(1, Len(s) - n + 1), Len(s))

IsPoint(v) == v # Null

\* the data points of the baseline window
WindowValues(s) == SelectSeq(LastEntries(s, BaselineWindow), IsPoint)

\* lower median of a non-empty sequence of numbers
Median(vals) ==
    CHOOSE m \in {vals[i] : i \in DOMAIN vals} :
        /\ 2 * Cardinality({i \in DOMAIN vals : vals[i] <= m}) >= Len(vals)
        /\ 2 * Cardinality({i \in DOMAIN vals : vals[i] < m}) < Len(vals)

\* median absolute deviation from the center c
MedianAbsDeviation(vals, c) ==
    Median([i \in DOMAIN vals |-> Abs(vals[i] - c)])

\* the most recent DisconnectDays days have no data
DataGap(s) ==
    /\ Len(s) >= DisconnectDays
    /\ \A i \in DOMAIN s : i > Len(s) - DisconnectDays => s[i] = Null

ShouldFreeze_Never(s, prev) == FALSE

\* a baseline that has good values freezes when the sensor is disconnected
\* or the window no longer holds the minimum sample
ShouldFreeze(s, prev) ==
    /\ prev.center # Null
    /\ DataGap(s) \/ Len(WindowValues(s)) < MinSampleSize

Insufficient_ZeroDefault(n) ==
    [center |-> 0, spread |-> 0, sample_size |-> n,
     available |-> TRUE, reason |-> "none", stale |-> FALSE]

\* result for a series below the minimum sample size: no values
Insufficient(n) ==
    [center |-> Null, spread |-> Null, sample_size |-> n,
     available |-> FALSE, reason |-> "insufficient_data", stale |-> FALSE]

\* compute_baseline(user_id, metric_key) -> Baseline, from the series s and
\* the stored baseline prev
compute_baseline(s, prev) ==
    LET vals == WindowValues(s)
        n == Len(vals)
    IN  IF ShouldFreeze(s, prev)
        THEN [prev EXCEPT
                !.available = FALSE,
                !.stale = TRUE,
                !.reason = IF n < MinSampleSize THEN "insufficient_data"
                           ELSE "stale"]
        ELSE IF n < MinSampleSize
        THEN Insufficient(n)
        ELSE [center |-> Median(vals),
              spread |-> MedianAbsDeviation(vals, Median(vals)),
              sample_size |-> n,
              available |-> TRUE, reason |-> "none", stale |-> FALSE]

\* one more day of the series: a data point, or none
ingest_day ==
    /\ Len(series) < MaxSeriesLen
    /\ \E v \in Values \cup {Null} : series' = Append(series, v)
    /\ UNCHANGED <<baseline, consumed>>

\* the Baseline Estimator recomputes the stored baseline
recompute_baseline ==
    /\ baseline' = compute_baseline(series, baseline)
    /\ UNCHANGED <<series, consumed>>

\* GET /metrics/series: the points and the baseline as MetricBaseline
MetricSeriesResponse ==
    [points |-> SelectSeq(series, IsPoint),
     baseline |-> [mean |-> baseline.center, std |-> baseline.spread,
                   available |-> baseline.available,
                   reason |-> baseline.reason]]

\* a number | null operand of + and -: null converts to 0
ToNumber(x) == IF x = Null THEN 0 ELSE x

\* MetricChart({ series, title }): the baseline band it computes and what
\* becomes of the render
MetricChart(resp) ==
    IF Len(resp.points) = 0
    THEN [consumer |-> "chart", available |-> resp.baseline.available,
          outcome |-> "no_data", lower |-> Null, upper |-> Null]
    ELSE LET baselineMean == resp.baseline.mean
             baselineUpper == ToNumber(baselineMean) + ToNumber(resp.baseline.std)
             baselineLower == ToNumber(baselineMean) - ToNumber(resp.baseline.std)
         IN [consumer |-> "chart", available |-> resp.baseline.available,
             outcome |-> IF baselineMean = Null THEN "TypeError" ELSE "rendered",
             lower |-> baselineLower, upper |-> baselineUpper]

render_chart ==
    /\ consumed' = MetricChart(MetricSeriesResponse)
    /\ UNCHANGED <<series, baseline>>

\* determineSilenceState(userId) of the insights feed, called when the feed
\* is empty
determineSilenceState(statusOk, connected, fetchOk, resp) ==
    IF ~statusOk \/ ~connected THEN "no_provider"
    ELSE IF ~fetchOk THEN "no_recent_data"
    ELSE IF Len(SelectSeq(LastEntries(series, RecentDays), IsPoint)) = 0
         THEN "no_recent_data"
    ELSE IF ~resp.baseline.available THEN "baseline_building"
    ELSE "no_signal"

load_feed ==
    /\ \E statusOk, connected, fetchOk \in BOOLEAN :
          consumed' =
            [consumer |-> "feed", available |-> baseline.available,
             outcome |-> determineSilenceState(statusOk, connected, fetchOk,
                                               MetricSeriesResponse),
             lower |-> Null, upper |-> Null]
    /\ UNCHANGED <<series, baseline>>

\* a detector given the stored baseline: BaselineUnavailable is handled by
\* giving no opinion
DetectorUse(b) == IF b.available THEN "used" ELSE "no_opinion"

run_detector ==
    /\ consumed' =
          [consumer |-> "detector", available |-> baseline.available,
           outcome |-> DetectorUse(baseline), lower |-> Null, upper |-> Null]
    /\ UNCHANGED <<series, baseline>>

NextBaseline ==
    \/ ingest_day
    \/ recompute_baseline
    \/ render_chart
    \/ load_feed
    \/ run_detector

(* ---------------------------- scheduled jobs --------------------------- *)

\* idempotency windows (time buckets) the model follows
MaxBucket == 2

\* dispatches of the job over all scheduler replicas
MaxDispatches == 3

\* scheduler replicas that may dispatch the same job
Replicas == {"r1", "r2"}

Buckets == 1..MaxBucket

VARIABLES
    bucket,     \* the current time bucket
    jobRuns,    \* JobRun rows by idempotency key: their status
    rpc,        \* rpc[r]: position of replica r inside the job wrapper
    rkey,       \* rkey[r]: idempotency key of r's current dispatch
    executed,   \* executed[k]: executions of the job body under key k
    skipped,    \* skipped[k]: dispatches under key k that were skipped
    dispatched  \* dispatches so far

jobVars == <<bucket, jobRuns, rpc, rkey, executed, skipped, dispatched>>

InitJobs ==
    /\ bucket = 1
    /\ jobRuns = [k \in Buckets |-> "none"]
    /\ rpc = [r \in Replicas |-> "idle"]
    /\ rkey = [r \in Replicas |-> 1]
    /\ executed = [k \in Buckets |-> 0]
    /\ skipped = [k \in Buckets |-> 0]
    /\ dispatched = 0

\* time passes into the next idempotency window
tick ==
    /\ bucket < MaxBucket
    /\ bucket' = bucket + 1
    /\ UNCHANGED <<jobRuns, rpc, rkey, executed, skipped, dispatched>>

\* generate_idempotency_key(): job id, parameters and the time bucket; the
\* job and its parameters are fixed here, so the bucket is the key
generate_idempotency_key(b) == b

\* the scheduler of replica r dispatches the job (first run, duplicate
\* dispatch or retry)
dispatch(r) ==
    /\ rpc[r] = "idle"
    /\ dispatched < MaxDispatches
    /\ dispatched' = dispatched + 1
    /\ rkey' = [rkey EXCEPT ![r] = generate_idempotency_key(bucket)]
    /\ rpc' = [rpc EXCEPT ![r] = "check"]
    /\ UNCHANGED <<bucket, jobRuns, executed, skipped>>

\* check_recent_completion(): the job completed under this key already
check_recent_completion(k) == jobRuns[k] = "completed"

check(r) ==
    /\ rpc[r] = "check"
    /\ IF check_recent_completion(rkey[r])
       THEN /\ skipped' = [skipped EXCEPT ![rkey[r]] = @ + 1]
            /\ rpc' = [rpc EXCEPT ![r] = "idle"]
       ELSE /\ rpc' = [rpc EXCEPT ![r] = "create"]
            /\ UNCHANGED skipped
    /\ UNCHANGED <<bucket, jobRuns, rkey, executed, dispatched>>

UniqueViolation_NotEnforced(k) == FALSE

\* JobRun.idempotency_key is unique: a second row for the key is refused
UniqueViolation(k) == jobRuns[k] # "none"

\* the wrapper creates the JobRun row; a uniqueness violation is handled by
\* skipping the run
create_job_run(r) ==
    /\ rpc[r] = "create"
    /\ IF UniqueViolation(rkey[r])
       THEN /\ skipped' = [skipped EXCEPT ![rkey[r]] = @ + 1]
            /\ rpc' = [rpc EXCEPT ![r] = "idle"]
            /\ UNCHANGED jobRuns
       ELSE /\ jobRuns' = [jobRuns EXCEPT ![rkey[r]] = "running"]
            /\ rpc' = [rpc EXCEPT ![r] = "run"]
            /\ UNCHANGED skipped
    /\ UNCHANGED <<bucket, rkey, executed, dispatched>>

\* the job body runs and the JobRun row is completed or failed
execute(r) ==
    /\ rpc[r] = "run"
    /\ \E ok \in BOOLEAN :
          jobRuns' = [jobRuns EXCEPT ![rkey[r]] =
                        IF ok THEN "completed" ELSE "failed"]
    /\ executed' = [executed EXCEPT ![rkey[r]] = @ + 1]
    /\ rpc' = [rpc EXCEPT ![r] = "idle"]
    /\ UNCHANGED <<bucket, rkey, skipped, dispatched>>

NextJobs ==
    \/ tick
    \/ \E r \in Replicas :
          dispatch(r) \/ check(r) \/ create_job_run(r) \/ execute(r)

(* ----------------------------- attribution ---------------------------- *)

Exposures == {"magnesium", "caffeine", "alcohol"}

\* target false-discovery rate, in thousandths
Alpha == 100

\* minimum sample size (days) of an attribution candidate
MinAttributionSample == 14

\* what the aligned exposure / outcome days of one exposure give: raw
\* p-value (thousandths), exposed days, effect size and raw confidence
\* (tenths)
Strong == [p |-> 10, sample_size |-> 20, effect_size |-> 10, confidence |-> 8]

Moderate == [p |-> 60, sample_size |-> 20, effect_size |-> 5, confidence |-> 6]

NoEffect == [p |-> 900, sample_size |-> 20, effect_size |-> 1, confidence |-> 2]

\* a strong effect on few exposed days (exposure logged on 3 of 20 days)
FewDays == [p |-> 10, sample_size |-> 3, effect_size |-> 10, confidence |-> 8]

\* the profiles each exposure shows over the windows that are requested
Profiles(e) ==
    CASE e = "magnesium" -> {Strong, Moderate, NoEffect, FewDays}
      [] e = "caffeine" -> {Moderate, NoEffect}
      [] e = "alcohol" -> {NoEffect, FewDays}

\* the comparisons of one run: one per exposure that has data in the window
Comparison(e, pr) ==
    [exposure_key |-> e, p |-> pr.p, sample_size |-> pr.sample_size,
     effect_size |-> pr.effect_size, confidence |-> pr.confidence]

AllComparisons ==
    UNION {{Comparison(e, pr) : pr \in Profiles(e)} : e \in Exposures}

ComparisonSets ==
    {cs \in SUBSET AllComparisons :
        \A c1, c2 \in cs : c1.exposure_key = c2.exposure_key => c1 = c2}

VARIABLES
    attrInputs, \* the comparisons of the latest attribution run
    candidates, \* the stored DriverCandidate rows
    memo,       \* inputs and candidates of the first attribution run
    between     \* a run on other inputs than the first run's has happened

attrVars == <<attrInputs, candidates, memo, between>>

NoMemo == [taken |-> FALSE, inputs |-> {}, candidates |-> {}]

InitAttr ==
    /\ attrInputs = {}
    /\ candidates = {}
    /\ memo = NoMemo
    /\ between = FALSE

\* rank of c's p-value among the comparisons cs of the run
PRank(c, cs) == Cardinality({o \in cs : o.p <= c.p})

FdrAccepted_PerPair(cs) == {c \in cs : c.p <= Alpha}

\* benjamini_hochberg_fdr(): step-up over all comparisons of the run; the
\* accepted ones are those up to the largest p(k) <= k / m * alpha
FdrAccepted(cs) ==
    {c \in cs :
        \E o \in cs :
            /\ c.p <= o.p
            /\ o.p * Cardinality(cs) <= PRank(o, cs) * Alpha}

\* apply_attribution_guardrails(): the violated guardrails
Violations(c) ==
    IF c.sample_size < MinAttributionSample THEN {"sample_size"} ELSE {}

GuardrailLabels(c) ==
    IF "sample_size" \in Violations(c) THEN {"preliminary"} ELSE {}

\* confidence adjusted downward with the guardrail violations
AdjustedConfidence(c) == c.confidence - 3 * Cardinality(Violations(c))

\* filter_attributions_by_guardrails(): a driver that fails a guardrail is
\* skipped, it is not created
PassesGuardrails(c) == Violations(c) = {}

DriverCandidate(c) ==
    [exposure_key |-> c.exposure_key,
     effect_size |-> c.effect_size,
     p |-> c.p,
     sample_size |-> c.sample_size,
     confidence_raw |-> c.confidence,
     confidence |-> AdjustedConfidence(c),
     guardrail_labels |-> GuardrailLabels(c)]

Considered_WithStored(cs) ==
    cs \cup {c \in AllComparisons :
                /\ \E d \in candidates : d.exposure_key = c.exposure_key /\ d.p = c.p
                /\ \A o \in cs : o.exposure_key # c.exposure_key}

\* the comparisons a run corrects and filters: those of its own window
Considered(cs) == cs

\* run_attribution(...) -> [DriverCandidate], from the comparisons cs
AttributionResult(cs) ==
    {DriverCandidate(c) :
        c \in {a \in FdrAccepted(Considered(cs)) : PassesGuardrails(a)}}

Stored_Patched(prev, new) ==
    new \cup {d \in prev : \A n \in new : n.exposure_key # d.exposure_key}

\* the rows stored after a run: the run's candidates replace all earlier ones
Stored(prev, new) == new

run_attribution ==
    \E cs \in ComparisonSets :
        LET result == AttributionResult(cs) IN
        /\ attrInputs' = cs
        /\ candidates' = Stored(candidates, result)
        /\ memo' = IF memo.taken THEN memo
                   ELSE [taken |-> TRUE, inputs |-> cs, candidates |-> result]
        /\ between' = (between \/ (memo.taken /\ cs # memo.inputs))

NextAttr == run_attribution

(* --------------------------- evidence grader --------------------------- *)

\* graded items: confidence and coverage in tenths, sample size in days
GradeConfidences == {3, 4, 6, 8, 9}

GradeSampleSizes == {6, 7, 14, 30}

GradeCoverages == {2, 3, 5, 7}

VARIABLES graded \* the items graded last, oldest first (at most two)

gradeVars == <<graded>>

InitGrade == graded = <<>>

Grades == {"A", "B", "C", "D"}

\* requirements of the grades A, B and C; D is the default
GradeMinConfidence(g) == CASE g = "A" -> 8 [] g = "B" -> 6 [] g = "C" -> 4

GradeMinSampleSize(g) == CASE g = "A" -> 30 [] g = "B" -> 14 [] g = "C" -> 7

GradeMinCoverage(g) == CASE g = "A" -> 7 [] g = "B" -> 5 [] g = "C" -> 3

MeetsConfidence_Exact(confidence, g) == confidence = GradeMinConfidence(g)

MeetsConfidence(confidence, g) == confidence >= GradeMinConfidence(g)

MeetsGrade(confidence, sample_size, coverage, g) ==
    /\ MeetsConfidence(confidence, g)
    /\ sample_size >= GradeMinSampleSize(g)
    /\ coverage >= GradeMinCoverage(g)

\* grade(confidence, sample_size, coverage) -> Grade
grade(confidence, sample_size, coverage) ==
    IF MeetsGrade(confidence, sample_size, coverage, "A") THEN "A"
    ELSE IF MeetsGrade(confidence, sample_size, coverage, "B") THEN "B"
    ELSE IF MeetsGrade(confidence, sample_size, coverage, "C") THEN "C"
    ELSE "D"

\* one item is graded
grade_item ==
    \E c \in GradeConfidences, n \in GradeSampleSizes, v \in GradeCoverages :
        LET item == [confidence |-> c, sample_size |-> n, coverage |-> v,
                     grade |-> grade(c, n, v)]
        IN graded' = IF Len(graded) = 0 THEN <<item>>
                     ELSE <<graded[Len(graded)], item>>

NextGrade == grade_item

(* --------------------- evaluation and orchestrator --------------------- *)

\* number of evaluations and of loop decisions created in one behaviour
MaxEvals == 2

MaxDecisions == 2

Experiments == {"e1", "e2"}

\* outcome change between the baseline and the intervention window:
\* in the hoped-for direction, against it, or too small to tell
Effects == {"improved", "worsened", "small"}

\* factor values, in tenths
EffectConfidences == {5, 10}

CoveragePenalties == {8, 10}

AdherenceConfidences == {10}

AdherenceRates == {0, 8}

Coverages == {5, 10}

VARIABLES
    evaluations, \* EvaluationResult rows, in creation order (id = index)
    decisions,   \* LoopDecision rows, in creation order
    extensions   \* extensions[e]: extensions granted to experiment e so far

loopVars == <<evaluations, decisions, extensions>>

InitLoop ==
    /\ evaluations = <<>>
    /\ decisions = <<>>
    /\ extensions = [e \in Experiments |-> 0]

\* minimum confidence (thousandths) for a "helpful" verdict
MinConfidence == 500

\* minimum intervention-window coverage (tenths)
MinCoverage == 5

\* confidence (thousandths) from which an evaluation counts as high confidence
HighConfidence == 800

\* most extensions one experiment is granted
MaxExtensions == 1

\* verdict the effect alone would support
EffectVerdict(effect) ==
    CASE effect = "improved" -> "helpful"
      [] effect = "worsened" -> "not_helpful"
      [] effect = "small" -> "unclear"

HasAdherenceEvidence(adherence_rate) == adherence_rate > 0

\* adherence confidence is 0 when no adherence event was logged
AdherenceConfidence(events_logged, ac) == IF events_logged THEN ac ELSE 0

\* confidence = effect_confidence * coverage_penalty * adherence_confidence
ConfidenceScore(ec, cp, ac) == ec * cp * ac

GateHelpful_NoAdherenceCheck(v, has_adherence, confidence) ==
    IF v = "helpful" /\ confidence < MinConfidence THEN "unclear" ELSE v

\* "helpful" needs adherence evidence and the minimum confidence; a verdict
\* that lacks either is downgraded to "unclear"
GateHelpful(v, has_adherence, confidence) ==
    IF v = "helpful" /\ (~has_adherence \/ confidence < MinConfidence)
    THEN "unclear"
    ELSE v

CoverageRule_Strict(v, coverage) ==
    IF coverage < MinCoverage THEN "insufficient_data" ELSE v

\* the intervention window's coverage must exceed the minimum
CoverageRule(v, coverage) ==
    IF coverage <= MinCoverage THEN "insufficient_data" ELSE v

Verdict(effect, has_adherence, confidence, coverage) ==
    CoverageRule(GateHelpful(EffectVerdict(effect), has_adherence, confidence),
                 coverage)

\* evaluate(experiment_id): compares the two windows of experiment e and
\* stores one EvaluationResult
evaluate(e) ==
    /\ Len(evaluations) < MaxEvals
    /\ \E effect \in Effects, events_logged \in BOOLEAN,
          rate \in AdherenceRates, ec \in EffectConfidences,
          cp \in CoveragePenalties, ac \in AdherenceConfidences,
          coverage \in Coverages :
        /\ ~events_logged => rate = 0
        /\ LET conf == ConfidenceScore(ec, cp, AdherenceConfidence(events_logged, ac))
               adh == HasAdherenceEvidence(rate)
           IN evaluations' = Append(evaluations,
                [experiment |-> e,
                 effect |-> effect,
                 coverage |-> coverage,
                 confidence_score |-> conf,
                 has_adherence_evidence |-> adh,
                 verdict |-> Verdict(effect, adh, conf, coverage)])
    /\ UNCHANGED <<decisions, extensions>>

\* result of looking an evaluation id up when no such row exists
NoEvaluation ==
    [experiment |-> "none", effect |-> "none", coverage |-> 0,
     confidence_score |-> 0, has_adherence_evidence |-> FALSE,
     verdict |-> "none"]

FindEvaluation(id) ==
    IF id \in DOMAIN evaluations THEN evaluations[id] ELSE NoEvaluation

EvaluationFound_Unchecked(ev) == TRUE

\* decide_next_step works on an evaluation that exists
EvaluationFound(ev) == ev # NoEvaluation

IsHighConfidence(confidence) == confidence >= HighConfidence

UnderExtensionCap_OffByOne(ext) == ext <= MaxExtensions

UnderExtensionCap(ext) == ext < MaxExtensions

\* action for a "helpful" evaluation: "continue", with no check of the
\* evaluation's confidence
HelpfulAction(confidence) == "continue"

\* the actions decide_next_step may return for an evaluation: the decision
\* table on (verdict, confidence, extensions so far); for "not_helpful"
\* below high confidence no action is laid down, so either "stop" or
\* "adjust" may come
NextActions(verdict, confidence, ext) ==
    CASE verdict = "helpful" -> {HelpfulAction(confidence)}
      [] verdict = "not_helpful" ->
            IF IsHighConfidence(confidence) THEN {"stop"} ELSE {"stop", "adjust"}
      [] OTHER -> IF UnderExtensionCap(ext) THEN {"extend"} ELSE {"stop"}

\* a stop that ends an unclear or insufficient-data experiment at the
\* extension cap is labelled inconclusive
DecisionLabel(verdict, action) ==
    IF action = "stop" /\ verdict \notin {"helpful", "not_helpful"}
    THEN "inconclusive"
    ELSE "none"

\* whether the action was validated through the claim policy
\* (is_action_allowed) before it is returned: it is not
ClaimPolicyValidated(action) == FALSE

\* decide_next_step(evaluation_id): one LoopDecision from one evaluation
decide_next_step(id) ==
    /\ Len(decisions) < MaxDecisions
    /\ LET ev == FindEvaluation(id) IN
        /\ EvaluationFound(ev)
        /\ LET e == IF ev.experiment \in Experiments
                    THEN ev.experiment ELSE CHOOSE x \in Experiments : TRUE
               ext == extensions[e]
           IN \E action \in NextActions(ev.verdict, ev.confidence_score, ext) :
                /\ decisions' = Append(decisions,
                      [evaluation_id |-> id,
                       experiment |-> ev.experiment,
                       action |-> action,
                       label |-> DecisionLabel(ev.verdict, action),
                       validated |-> ClaimPolicyValidated(action),
                       extensions_before |-> ext])
                /\ extensions' = [extensions EXCEPT ![e] =
                                    IF action = "extend" THEN @ + 1 ELSE @]
    /\ UNCHANGED evaluations

\* the evaluations the orchestrator is exercised on: a clear effect, one
\* confidence per class (none, minimum, high), and no confidence without
\* adherence evidence
Representative(r) ==
    /\ r.effect # "small"
    /\ r.confidence_score \in {0, MinConfidence, 1000}
    /\ r.has_adherence_evidence = (r.confidence_score > 0)

NextEval == \E e \in Experiments : evaluate(e)

NextLoop ==
    \/ \E e \in Experiments :
          evaluate(e) /\ Representative(evaluations'[Len(evaluations')])
    \/ \E id \in 1..MaxEvals : decide_next_step(id)


(* -------------------- narration and the claim policy ------------------- *)

\* strength of the strongest claim word of a text, from 1 ("may be
\* associated with") to 4 ("causes", "proves")
Strengths == 1..4

CreationPaths == {"create_insight", "synthesize_narrative"}

VARIABLES
    shown,      \* the texts that reached the user: [path, grade, strength]
    blocked     \* the texts that were discarded

narrateVars == <<shown, blocked>>

InitNarrate ==
    /\ shown = {}
    /\ blocked = {}

\* the strongest wording the allow-list of a grade contains
MaxStrength(g) == CASE g = "A" -> 4 [] g = "B" -> 3 [] g = "C" -> 2 [] g = "D" -> 1

validate_language(g, strength) == strength <= MaxStrength(g)

\* the LLM client returns None (here the empty set) for a text that
\* violates the claim policy and the text itself otherwise; it never
\* rewrites the text
generate_insight(g, strength) ==
    IF validate_language(g, strength)
       THEN {[path |-> "llm", grade |-> g, strength |-> strength]}
       ELSE {}

translate(g, strength) ==
    /\ Cardinality(shown) + Cardinality(blocked) < MaxOutputs
    /\ LET out == generate_insight(g, strength)
       IN IF out = {}
             THEN /\ blocked' = blocked \cup
                        {[path |-> "llm", grade |-> g, strength |-> strength]}
                  /\ UNCHANGED shown
             ELSE shown' = shown \cup out /\ UNCHANGED blocked

\* insight and narrative creation do not call validate_language
CreationValidates == FALSE

create(path, g, strength) ==
    /\ Cardinality(shown) + Cardinality(blocked) < MaxOutputs
    /\ LET t == [path |-> path, grade |-> g, strength |-> strength]
       IN IF CreationValidates /\ ~validate_language(g, strength)
             THEN blocked' = blocked \cup {t} /\ UNCHANGED shown
             ELSE shown' = shown \cup {t} /\ UNCHANGED blocked

NextNarrate ==
    \/ \E g \in Grades, s \in Strengths : translate(g, s)
    \/ \E p \in CreationPaths, g \in Grades, s \in Strengths : create(p, g, s)


(* --------------------------- the insights feed ------------------------- *)

\* age in days of the points a metric response may hold
PointAges == {0, 7, 8}

ProviderStatuses == [ok : BOOLEAN, connected : BOOLEAN]

MetricResponses == [ok : BOOLEAN, ages : SUBSET PointAges, available : BOOLEAN]

VARIABLES
    insights,       \* number of insights the page holds
    silenceState,   \* SilenceState of the page
    loading,        \* the page shows "Loading..."
    lastLoad        \* what the last loadInsights met

feedVars == <<insights, silenceState, loading, lastLoad>>

NotLoaded ==
    [feedOk |-> FALSE, items |-> 0, withheld |-> FALSE,
     providerStatus |-> [ok |-> FALSE, connected |-> FALSE],
     metricResponse |-> [ok |-> FALSE, ages |-> {}, available |-> FALSE],
     loaded |-> FALSE]

InitFeed ==
    /\ insights = 0
    /\ silenceState = "null"
    /\ loading = TRUE
    /\ lastLoad = NotLoaded

\* the catch branch of the whoopStatus call
OnStatusError == "no_provider"

OnMetricError_NoSignal == "no_signal"

\* the catch branch of the fetchMetricSeries call
OnMetricError == "no_recent_data"

\* points.filter(p => new Date(p.timestamp) >= sevenDaysAgo)
recentPoints(ages) == {a \in ages : a <= RecentDays}

\* determineSilenceState(userId), by what its two requests return
SilenceStateFor(providerStatus, metricResponse) ==
    IF ~providerStatus.ok THEN OnStatusError
    ELSE IF ~providerStatus.connected THEN "no_provider"
    ELSE IF ~metricResponse.ok THEN OnMetricError
    ELSE IF recentPoints(metricResponse.ages) = {} THEN "no_recent_data"
    ELSE IF ~metricResponse.available THEN "baseline_building"
    ELSE "no_signal"

\* loadInsights: the feed request either returns its items or fails; the
\* response carries nothing but items, so output the backend withheld for the
\* user leaves no mark on it
loadInsights(feedOk, items, withheld, providerStatus, metricResponse) ==
    /\ insights' = IF feedOk THEN items ELSE 0
    /\ silenceState' =
          IF feedOk /\ items # 0 THEN "null"
          ELSE SilenceStateFor(providerStatus, metricResponse)
    /\ loading' = FALSE
    /\ lastLoad' = [feedOk |-> feedOk, items |-> items, withheld |-> withheld,
                    providerStatus |-> providerStatus,
                    metricResponse |-> metricResponse, loaded |-> TRUE]

\* SilenceStateMessage: the title the empty feed shows
SilenceStateMessage(state) ==
    CASE state = "no_provider" -> "No wearable connected yet"
      [] state = "no_recent_data" -> "Waiting for recent data"
      [] state = "baseline_building" -> "Baseline still forming"
      [] state = "no_signal" -> "Nothing stands out yet"
      [] OTHER -> "No insights available"

NextFeed ==
    \E feedOk, withheld \in BOOLEAN, items \in 0..MaxItems,
       providerStatus \in ProviderStatuses, metricResponse \in MetricResponses :
       loadInsights(feedOk, items, withheld, providerStatus, metricResponse)


(* ------------------- failures inside the per-user run ------------------ *)

\* the items of one per-user run, in the order the run visits them: the
\* detectors on each metric, then attribution on each exposure
RunItems == <<"sleep_duration", "resting_hr", "magnesium", "caffeine">>

VARIABLES
    itemPos,     \* itemPos[u]: index of the next item of u's run
    itemState,   \* itemState[u]: "running", "finished" or "aborted"
    itemsDone,   \* <<user, item>> pairs that were processed
    itemsSkipped,\* <<user, item>> pairs that were skipped
    errorLog     \* logged failures: [user, item]

itemVars == <<itemPos, itemState, itemsDone, itemsSkipped, errorLog>>

InitItems ==
    /\ itemPos = [u \in Users |-> 1]
    /\ itemState = [u \in Users |-> "running"]
    /\ itemsDone = {}
    /\ itemsSkipped = {}
    /\ errorLog = {}

OnItemFailure_Raise == "aborted"

\* an exception of a detector or of attribution is caught around the item:
\* the run goes on with the next item
OnItemFailure == "running"

\* the run's state after the item at position i
AfterItem(i, fails) ==
    IF fails /\ OnItemFailure # "running" THEN OnItemFailure
    ELSE IF i = Len(RunItems) THEN "finished"
    ELSE "running"

\* one item of u's run: the detector or attribution either returns or
\* raises; a failure is logged with its context and the item is skipped
process_item(u, fails) ==
    /\ itemState[u] = "running"
    /\ LET i == itemPos[u]
           item == RunItems[i]
       IN /\ itemsDone' = IF fails THEN itemsDone
                          ELSE itemsDone \cup {<<u, item>>}
          /\ itemsSkipped' = IF fails THEN itemsSkipped \cup {<<u, item>>}
                             ELSE itemsSkipped
          /\ errorLog' = IF fails THEN errorLog \cup {[user |-> u, item |-> item]}
                         ELSE errorLog
          /\ itemPos' = [itemPos EXCEPT ![u] = i + 1]
          /\ itemState' = [itemState EXCEPT ![u] = AfterItem(i, fails)]

NextItems == \E u \in Users, fails \in BOOLEAN : process_item(u, fails)


(* -------------------------------- consent ------------------------------ *)

AnalysisOps ==
    {"compute_baseline", "run_detectors", "run_attribution", "grade",
     "evaluate", "decide_next_step"}

VARIABLES
    consent,     \* consent[u]: "none", "granted" or "revoked"
    lastSync,    \* lastSync[u]: outcome of u's last provider sync
    lastAnalysis \* lastAnalysis[u]: the last analysis operation run for u
                 \* and u's consent when it started

consentVars == <<consent, lastSync, lastAnalysis>>

NoAnalysis == [op |-> "none", consent |-> "none"]

InitConsent ==
    /\ consent = [u \in Users |-> "none"]
    /\ lastSync = [u \in Users |-> "none"]
    /\ lastAnalysis = [u \in Users |-> NoAnalysis]

\* the latest consent record exists, consents to data analysis and is not
\* revoked
is_consent_valid(c) == c = "granted"

\* POST /consent on the consent page
createConsent(u) ==
    /\ consent[u] # "granted"
    /\ consent' = [consent EXCEPT ![u] = "granted"]
    /\ UNCHANGED <<lastSync, lastAnalysis>>

\* POST /api/v1/consent/revoke
revoke_consent(u) ==
    /\ consent[u] = "granted"
    /\ consent' = [consent EXCEPT ![u] = "revoked"]
    /\ UNCHANGED <<lastSync, lastAnalysis>>

\* ProviderSyncService.sync_whoop: refuses without valid consent
sync_whoop(u) ==
    /\ lastSync' = [lastSync EXCEPT ![u] =
                      IF is_consent_valid(consent[u]) THEN "synced" ELSE "refused"]
    /\ UNCHANGED <<consent, lastAnalysis>>

\* the consent model is enforced in the provider sync only: the analysis
\* operations start whatever the user's consent is
AnalysisMayStart(u) == TRUE

run_analysis(u, op) ==
    /\ AnalysisMayStart(u)
    /\ lastAnalysis' = [lastAnalysis EXCEPT ![u] = [op |-> op, consent |-> consent[u]]]
    /\ UNCHANGED <<consent, lastSync>>

NextConsent ==
    \E u \in Users :
       \/ createConsent(u)
       \/ revoke_consent(u)
       \/ sync_whoop(u)
       \/ \E op \in AnalysisOps : run_analysis(u, op)


(* ------------------- what starts detectors and attribution ------------- *)

VARIABLES
    executions  \* work done for a user: [user, op, path]

triggerVars == <<executions>>

InitTrigger == executions = {}

Executed(u, ops, path) ==
    executions' = executions \cup {[user |-> u, op |-> o, path |-> path] : o \in ops}

\* the scheduled daily job of user u: the insight loop and attribution
job_run_daily(u) ==
    Executed(u, {"run_detectors", "run_attribution"}, "scheduled_job")

\* provider sync and the health-data endpoint store points; they start
\* neither detectors nor attribution
ingest(u) == Executed(u, {"store_points"}, "ingestion_request")

\* POST /api/v1/insights/run calls run_loop() in the request
RunEndpointWork == {"run_detectors"}

\* handleRunLoop of the insights feed ("Run Loop" button)
handleRunLoop(u) == Executed(u, RunEndpointWork, "user_request")

\* handleRefreshDrivers / handleRefreshPersonalDrivers of the dashboard:
\* POST /drivers/generate and POST /api/v1/drivers/recompute
handleRefreshDrivers(u) == Executed(u, {"run_attribution"}, "user_request")

NextTrigger ==
    \E u \in Users :
       \/ job_run_daily(u)
       \/ ingest(u)
       \/ handleRunLoop(u)
       \/ handleRefreshDrivers(u)


(* -------------------- the consent and connect pages -------------------- *)

ConsentKeys ==
    {"understands_not_medical_advice", "consents_to_data_analysis",
     "understands_recommendations_experimental", "understands_can_stop_anytime"}

\* useAuth().userId: a user id or null
AuthUserIds == {"null", "u1"}

VARIABLES
    route,         \* the page that is mounted ("none" before any is)
    authUser,      \* userId of the auth context
    pagePc,        \* the request the mounted page is waiting for, or "idle"
    pageLoading,   \* the page's loading flag
    hasConsent,    \* ConsentPage: hasConsent
    consentBoxes,  \* ConsentPage: the four check boxes
    submitting,    \* ConsentPage: submitting
    whoopConnected,\* ConnectPage: connected
    apiCalls,      \* requests issued so far: [api, page, user, allChecked]
    attemptCalls,  \* requests of the current (or last) handleSubmit, in
                   \* order: [api, result]
    attemptResult, \* of the last handleSubmit: "none", "pending", "failed"
                   \* (its catch block ran) or "navigated"
    submits        \* number of handleSubmit calls that reached the API

pageVars ==
    <<route, authUser, pagePc, pageLoading, hasConsent, consentBoxes,
      submitting, whoopConnected, apiCalls, attemptCalls, attemptResult,
      submits>>

InitPages ==
    /\ route = "none"
    /\ authUser = "null"
    /\ pagePc = "idle"
    /\ pageLoading = TRUE
    /\ hasConsent = FALSE
    /\ consentBoxes = [k \in ConsentKeys |-> FALSE]
    /\ submitting = FALSE
    /\ whoopConnected = FALSE
    /\ apiCalls = {}
    /\ attemptCalls = <<>>
    /\ attemptResult = "none"
    /\ submits = 0

ApiCall(api, page, user, allChecked) ==
    [api |-> api, page |-> page, user |-> user, allChecked |-> allChecked]

\* Object.values(consent).every((v) => v)
allChecked == \A k \in ConsentKeys : consentBoxes[k]

NoUserRedirect_Never(userId) == FALSE

\* if (!userId) { navigate('/login'); return; }
NoUserRedirect(userId) == userId = "null"

\* ConnectPage's effect on mount: without a user it navigates to /login,
\* otherwise it asks for the WHOOP status
MountConnect(userId) ==
    IF NoUserRedirect(userId)
    THEN /\ route' = "/login"
         /\ pagePc' = "idle"
         /\ UNCHANGED apiCalls
    ELSE /\ route' = "/connect"
         /\ pagePc' = "whoopStatus"
         /\ apiCalls' = apiCalls \cup {ApiCall("whoopStatus", "/connect", userId, FALSE)}

\* the browser opens /connect
open_connect(userId) ==
    /\ route = "none"
    /\ authUser' = userId
    /\ MountConnect(userId)
    /\ UNCHANGED <<pageLoading, hasConsent, consentBoxes, submitting,
                   whoopConnected, attemptCalls, attemptResult, submits>>

\* the browser opens /consent: ConsentPage's effect on mount
open_consent(userId) ==
    /\ route = "none"
    /\ authUser' = userId
    /\ IF NoUserRedirect(userId)
       THEN /\ route' = "/login"
            /\ pagePc' = "idle"
            /\ UNCHANGED apiCalls
       ELSE /\ route' = "/consent"
            /\ pagePc' = "getConsent"
            /\ apiCalls' = apiCalls \cup {ApiCall("getConsent", "/consent", userId, FALSE)}
    /\ UNCHANGED <<pageLoading, hasConsent, consentBoxes, submitting,
                   whoopConnected, attemptCalls, attemptResult, submits>>

\* checkConsent: getConsent returns a completed consent, returns none, or
\* fails
checkConsent(result) ==
    /\ route = "/consent"
    /\ pagePc = "getConsent"
    /\ IF result = "completed"
       THEN /\ hasConsent' = TRUE
            /\ pageLoading' = TRUE
            /\ MountConnect(authUser)
       ELSE /\ pageLoading' = FALSE
            /\ pagePc' = "idle"
            /\ UNCHANGED <<hasConsent, route, apiCalls>>
    /\ UNCHANGED <<authUser, consentBoxes, submitting, whoopConnected,
                   attemptCalls, attemptResult, submits>>

\* the consent form is on the screen
FormRendered == route = "/consent" /\ ~pageLoading /\ ~hasConsent

handleConsentChange(key) ==
    /\ FormRendered
    /\ consentBoxes' = [consentBoxes EXCEPT ![key] = ~@]
    /\ UNCHANGED <<route, authUser, pagePc, pageLoading, hasConsent,
                   submitting, whoopConnected, apiCalls, attemptCalls,
                   attemptResult, submits>>

SubmitDisabled_WhileSubmittingOnly == submitting

\* disabled={submitting || !Object.values(consent).every((v) => v)}
SubmitDisabled == submitting \/ ~allChecked

\* a click on the submit button runs handleSubmit up to its first request
handleSubmit ==
    /\ FormRendered
    /\ ~SubmitDisabled
    /\ submits < MaxSubmits
    /\ IF ~allChecked
       THEN UNCHANGED <<route, pagePc, submitting, apiCalls, attemptCalls,
                        attemptResult, submits>>
       ELSE IF authUser = "null"
       THEN /\ route' = "/login"
            /\ UNCHANGED <<pagePc, submitting, apiCalls, attemptCalls,
                           attemptResult, submits>>
       ELSE /\ submitting' = TRUE
            /\ apiCalls' = apiCalls \cup
                  {ApiCall("createConsent", "/consent", authUser, allChecked)}
            /\ attemptCalls' = <<[api |-> "createConsent", result |-> "pending"]>>
            /\ attemptResult' = "pending"
            /\ pagePc' = "createConsent"
            /\ submits' = submits + 1
            /\ UNCHANGED route
    /\ UNCHANGED <<authUser, pageLoading, hasConsent, consentBoxes,
                   whoopConnected>>

AfterCreateConsent_IgnoreFailure(ok) == "completeOnboarding"

\* await createConsent(...): a rejection leaves the try block
AfterCreateConsent(ok) == IF ok THEN "completeOnboarding" ELSE "idle"

Settled(calls, ok) ==
    [calls EXCEPT ![Len(calls)].result = IF ok THEN "ok" ELSE "failed"]

\* createConsent settles; on success handleSubmit goes on to
\* completeOnboarding, on failure to its catch and finally blocks
createConsent_settles(ok) ==
    /\ route = "/consent"
    /\ pagePc = "createConsent"
    /\ pagePc' = AfterCreateConsent(ok)
    /\ IF pagePc' = "completeOnboarding"
       THEN /\ apiCalls' = apiCalls \cup
                  {ApiCall("completeOnboarding", "/consent", authUser, FALSE)}
            /\ attemptCalls' = Append(Settled(attemptCalls, ok),
                  [api |-> "completeOnboarding", result |-> "pending"])
            /\ UNCHANGED <<submitting, attemptResult>>
       ELSE /\ submitting' = FALSE
            /\ attemptCalls' = Settled(attemptCalls, ok)
            /\ attemptResult' = "failed"
            /\ UNCHANGED apiCalls
    /\ UNCHANGED <<route, authUser, pageLoading, hasConsent, consentBoxes,
                   whoopConnected, submits>>

\* completeOnboarding settles; on success handleSubmit navigates to
\* /connect, and its finally block clears submitting either way
completeOnboarding_settles(ok) ==
    /\ route = "/consent"
    /\ pagePc = "completeOnboarding"
    /\ submitting' = FALSE
    /\ attemptCalls' = Settled(attemptCalls, ok)
    /\ IF ok
       THEN /\ attemptResult' = "navigated"
            /\ pageLoading' = TRUE
            /\ MountConnect(authUser)
       ELSE /\ attemptResult' = "failed"
            /\ pagePc' = "idle"
            /\ UNCHANGED <<route, apiCalls, pageLoading>>
    /\ UNCHANGED <<authUser, hasConsent, consentBoxes, whoopConnected,
                   submits>>

\* checkStatus of ConnectPage: whoopStatus returns or fails; a connected
\* provider sends the page on to /insights
checkStatus(ok, isConnected) ==
    /\ route = "/connect"
    /\ pagePc = "whoopStatus"
    /\ whoopConnected' = (ok /\ isConnected)
    /\ pageLoading' = FALSE
    /\ pagePc' = "idle"
    /\ route' = IF ok /\ isConnected THEN "/insights" ELSE route
    /\ UNCHANGED <<authUser, hasConsent, consentBoxes, submitting, apiCalls,
                   attemptCalls, attemptResult, submits>>

\* handleConnect of ConnectPage: whoopConnect, then on to WHOOP's OAuth page
handleConnect(ok) ==
    /\ route = "/connect"
    /\ ~pageLoading
    /\ ~whoopConnected
    /\ authUser # "null"
    /\ ApiCall("whoopConnect", "/connect", authUser, FALSE) \notin apiCalls
    /\ apiCalls' = apiCalls \cup {ApiCall("whoopConnect", "/connect", authUser, FALSE)}
    /\ route' = IF ok THEN "authorize_url" ELSE route
    /\ UNCHANGED <<authUser, pagePc, pageLoading, hasConsent, consentBoxes,
                   submitting, whoopConnected, attemptCalls, attemptResult,
                   submits>>

NextPages ==
    \/ \E userId \in AuthUserIds : open_consent(userId) \/ open_connect(userId)
    \/ \E result \in {"completed", "none", "error"} : checkConsent(result)
    \/ \E key \in ConsentKeys : handleConsentChange(key)
    \/ handleSubmit
    \/ \E ok \in BOOLEAN : createConsent_settles(ok)
    \/ \E ok \in BOOLEAN : completeOnboarding_settles(ok)
    \/ \E ok, isConnected \in BOOLEAN : checkStatus(ok, isConnected)
    \/ \E ok \in BOOLEAN : handleConnect(ok)


(* ------------------------------ the API client ------------------------- *)

AuthModes == {"public", "private"}

Statuses == {200, 401, 500}

VARIABLES
    authMode,      \* VITE_AUTH_MODE of the build
    lsUserId,      \* localStorage user_id ("null" when absent)
    lsAccessToken, \* localStorage accessToken ("null" when absent)
    ctxUserId,     \* userId held by the mounted AuthProvider
    location,      \* window.location.href
    reloadPending, \* location was assigned and the document not yet replaced
    request,       \* the last request of apiClient
    clearedUser    \* the user_id the last 401 removed, until the next login

apiVars ==
    <<authMode, lsUserId, lsAccessToken, ctxUserId, location, reloadPending,
      request, clearedUser>>

NoRequest ==
    [user_id |-> "null", authorization |-> "null", state |-> "none",
     status |-> 0]

InitApi ==
    /\ authMode = "public"
    /\ lsUserId = "null"
    /\ lsAccessToken = "null"
    /\ ctxUserId = "null"
    /\ location = "/login"
    /\ reloadPending = FALSE
    /\ request = NoRequest
    /\ clearedUser = "null"

\* the browser loads a build of the frontend made with VITE_AUTH_MODE = mode
load_app(mode) ==
    /\ ~reloadPending
    /\ ctxUserId = "null"
    /\ request.state # "in_flight"
    /\ authMode' = mode
    /\ UNCHANGED <<lsUserId, lsAccessToken, ctxUserId, location,
                   reloadPending, request, clearedUser>>

\* the login page calls setUserId(u); AuthProvider's effect stores user_id
setUserId(u, token) ==
    /\ ~reloadPending
    /\ ctxUserId = "null"
    /\ ctxUserId' = u
    /\ lsUserId' = u
    /\ lsAccessToken' = token
    /\ location' = "/insights"
    /\ clearedUser' = "null"
    /\ UNCHANGED <<authMode, reloadPending, request>>

\* the request interceptor: in public mode user_id of localStorage is put
\* into the params (created when the caller gave none); without a stored
\* user_id the caller's params are left as they are
RequestUserId(callerUserId) ==
    IF authMode = "public" /\ lsUserId # "null" THEN lsUserId ELSE callerUserId

RequestAuthorization ==
    IF authMode # "public" /\ lsAccessToken # "null" THEN lsAccessToken ELSE "null"

\* a page calls the API; pages pass params: { user_id: userId } with the
\* userId of the auth context, a few calls pass no user_id
send(explicit) ==
    /\ ctxUserId # "null"
    /\ request.state # "in_flight"
    /\ request' =
          [user_id |-> RequestUserId(IF explicit THEN ctxUserId ELSE "null"),
           authorization |-> RequestAuthorization,
           state |-> "in_flight", status |-> 0]
    /\ UNCHANGED <<authMode, lsUserId, lsAccessToken, ctxUserId, location,
                   reloadPending, clearedUser>>

\* the response interceptor
respond(status) ==
    /\ request.state = "in_flight"
    /\ request' = [request EXCEPT
                     !.state = IF status = 200 THEN "resolved" ELSE "rejected",
                     !.status = status]
    /\ IF status = 401
       THEN /\ lsAccessToken' = "null"
            /\ lsUserId' = "null"
            /\ location' = "/login"
            /\ reloadPending' = TRUE
            /\ clearedUser' = IF clearedUser = "null" THEN ctxUserId ELSE clearedUser
       ELSE UNCHANGED <<lsAccessToken, lsUserId, location, reloadPending,
                        clearedUser>>
    /\ UNCHANGED <<authMode, ctxUserId>>

\* the document of /login replaces the page: AuthProvider starts from
\* localStorage
reload ==
    /\ reloadPending
    /\ reloadPending' = FALSE
    /\ ctxUserId' = lsUserId
    /\ request' = IF request.state = "in_flight" THEN NoRequest ELSE request
    /\ UNCHANGED <<authMode, lsUserId, lsAccessToken, location, clearedUser>>

NextApi ==
    \/ \E mode \in AuthModes : load_app(mode)
    \/ \E u \in Users, token \in {"null", "t1"} : setUserId(u, token)
    \/ \E explicit \in BOOLEAN : send(explicit)
    \/ \E status \in Statuses : respond(status)
    \/ reload

vars == <<pc, day, cursor, gateLog, detectorLog, findings,
          ran, detected, lastRun,
          series, baseline, consumed,
          bucket, jobRuns, rpc, rkey, executed, skipped, dispatched,
          attrInputs, candidates, memo, between,
          graded,
          evaluations, decisions, extensions,
          shown, blocked,
          insights, silenceState, loading, lastLoad,
          itemPos, itemState, itemsDone, itemsSkipped, errorLog,
          consent, lastSync, lastAnalysis,
          executions,
          route, authUser, pagePc, pageLoading, hasConsent, consentBoxes,
          submitting, whoopConnected, apiCalls, attemptCalls,
          attemptResult, submits,
          authMode, lsUserId, lsAccessToken, ctxUserId, location,
          reloadPending, request, clearedUser>>

Init ==
    /\ InitRun
    /\ InitDetect
    /\ InitBaseline
    /\ InitJobs
    /\ InitAttr
    /\ InitGrade
    /\ InitLoop
    /\ InitNarrate
    /\ InitFeed
    /\ InitItems
    /\ InitConsent
    /\ InitTrigger
    /\ InitPages
    /\ InitApi

SpecRun ==
    Init /\ [][NextRun /\ UNCHANGED
        <<detectVars, baselineVars, jobVars, attrVars, gradeVars,
          loopVars, narrateVars, feedVars, itemVars, consentVars,
          triggerVars, pageVars, apiVars>>]_vars

SpecDetect ==
    Init /\ [][NextDetect /\ UNCHANGED
        <<runVars, baselineVars, jobVars, attrVars, gradeVars,
          loopVars, narrateVars, feedVars, itemVars, consentVars,
          triggerVars, pageVars, apiVars>>]_vars

SpecBaseline ==
    Init /\ [][NextBaseline /\ UNCHANGED
        <<runVars, detectVars, jobVars, attrVars, gradeVars, loopVars,
          narrateVars, feedVars, itemVars, consentVars, triggerVars,
          pageVars, apiVars>>]_vars

SpecJobs ==
    Init /\ [][NextJobs /\ UNCHANGED
        <<runVars, detectVars, baselineVars, attrVars, gradeVars,
          loopVars, narrateVars, feedVars, itemVars, consentVars,
          triggerVars, pageVars, apiVars>>]_vars

SpecAttr ==
    Init /\ [][NextAttr /\ UNCHANGED
        <<runVars, detectVars, baselineVars, jobVars, gradeVars,
          loopVars, narrateVars, feedVars, itemVars, consentVars,
          triggerVars, pageVars, apiVars>>]_vars

SpecGrade ==
    Init /\ [][NextGrade /\ UNCHANGED
        <<runVars, detectVars, baselineVars, jobVars, attrVars,
          loopVars, narrateVars, feedVars, itemVars, consentVars,
          triggerVars, pageVars, apiVars>>]_vars

SpecEval ==
    Init /\ [][NextEval /\ UNCHANGED
        <<runVars, detectVars, baselineVars, jobVars, attrVars,
          gradeVars, narrateVars, feedVars, itemVars, consentVars,
          triggerVars, pageVars, apiVars>>]_vars

SpecLoop ==
    Init /\ [][NextLoop /\ UNCHANGED
        <<runVars, detectVars, baselineVars, jobVars, attrVars,
          gradeVars, narrateVars, feedVars, itemVars, consentVars,
          triggerVars, pageVars, apiVars>>]_vars

SpecNarrate ==
    Init /\ [][NextNarrate /\ UNCHANGED
        <<runVars, detectVars, baselineVars, jobVars, attrVars,
          gradeVars, loopVars, feedVars, itemVars, consentVars,
          triggerVars, pageVars, apiVars>>]_vars

SpecFeed ==
    Init /\ [][NextFeed /\ UNCHANGED
        <<runVars, detectVars, baselineVars, jobVars, attrVars,
          gradeVars, loopVars, narrateVars, itemVars, consentVars,
          triggerVars, pageVars, apiVars>>]_vars

SpecItems ==
    Init /\ [][NextItems /\ UNCHANGED
        <<runVars, detectVars, baselineVars, jobVars, attrVars,
          gradeVars, loopVars, narrateVars, feedVars, consentVars,
          triggerVars, pageVars, apiVars>>]_vars

SpecConsent ==
    Init /\ [][NextConsent /\ UNCHANGED
        <<runVars, detectVars, baselineVars, jobVars, attrVars,
          gradeVars, loopVars, narrateVars, feedVars, itemVars,
          triggerVars, pageVars, apiVars>>]_vars

SpecTrigger ==
    Init /\ [][NextTrigger /\ UNCHANGED
        <<runVars, detectVars, baselineVars, jobVars, attrVars,
          gradeVars, loopVars, narrateVars, feedVars, itemVars,
          consentVars, pageVars, apiVars>>]_vars

SpecPages ==
    Init /\ [][NextPages /\ UNCHANGED
        <<runVars, detectVars, baselineVars, jobVars, attrVars,
          gradeVars, loopVars, narrateVars, feedVars, itemVars,
          consentVars, triggerVars, apiVars>>]_vars

SpecApi ==
    Init /\ [][NextApi /\ UNCHANGED
        <<runVars, detectVars, baselineVars, jobVars, attrVars,
          gradeVars, loopVars, narrateVars, feedVars, itemVars,
          consentVars, triggerVars, pageVars>>]_vars

(* ----------------------------- properties ------------------------------ *)

FindingsFor(u, d, m) ==
    {f \in findings : f.user = u /\ f.day = d /\ f.metric_key = m}

DetectorFindings(u, d) ==
    {f \in findings : f.user = u /\ f.day = d /\ f.type # "safety"}

DetectorPasses(u, d) ==
    {r \in detectorLog : r.user = u /\ r.day = d}

C3_FailClosed ==
    \A g \in gateLog :
        g.result = "failed" =>
            /\ DetectorPasses(g.user, g.day) = {}
            /\ DetectorFindings(g.user, g.day) = {}
            /\ day[g.user] = g.day => pc[g.user] = "aborted"

\* the gate failed for one user, whose run is aborted, while another user's
\* run went through its detectors
C3_Witness ==
    \E g \in gateLog :
        /\ g.result = "failed"
        /\ pc[g.user] = "aborted"
        /\ \E r \in detectorLog : r.user # g.user

FailsHelpfulGate(r) ==
    ~r.has_adherence_evidence \/ r.confidence_score < MinConfidence

ExtendsAmong(n, e) ==
    Cardinality({j \in 1..n : decisions[j].experiment = e
                              /\ decisions[j].action = "extend"})

\* C6: a decision made from an "unclear" or "insufficient_data" evaluation
\* is "extend" while the experiment has had fewer extensions than the cap,
\* and otherwise "stop" labelled inconclusive; no experiment ever gets more
\* extend decisions than the cap.
C6_ExtendUnderCap ==
    /\ \A i \in DOMAIN decisions :
          LET d == decisions[i]
              ev == FindEvaluation(d.evaluation_id)
          IN ev.verdict \in {"unclear", "insufficient_data"} =>
                IF ExtendsAmong(i - 1, d.experiment) < MaxExtensions
                THEN d.action = "extend"
                ELSE d.action = "stop" /\ d.label = "inconclusive"
    /\ \A e \in Experiments : ExtendsAmong(Len(decisions), e) <= MaxExtensions

\* an experiment was extended up to the cap and then stopped as inconclusive
C6_Witness ==
    \E i \in DOMAIN decisions :
        /\ decisions[i].action = "stop"
        /\ decisions[i].label = "inconclusive"
        /\ ExtendsAmong(i - 1, decisions[i].experiment) = MaxExtensions

\* C7 as stated: "helpful" with high confidence gives "continue",
\* "not_helpful" with high confidence gives "stop", and "continue" is never
\* returned for an evaluation that is not "helpful" with high confidence.
C7_Original ==
    \A i \in DOMAIN decisions :
        LET d == decisions[i]
            ev == FindEvaluation(d.evaluation_id)
            high == IsHighConfidence(ev.confidence_score)
        IN /\ (ev.verdict = "helpful" /\ high) => d.action = "continue"
           /\ (ev.verdict = "not_helpful" /\ high) => d.action = "stop"
           /\ d.action = "continue" => (ev.verdict = "helpful" /\ high)

\* C8 as stated: every "adjust" decision that is surfaced has been validated
\* through the claim policy.
C8_Original ==
    \A i \in DOMAIN decisions :
        decisions[i].action = "adjust" => decisions[i].validated

\* C9: whenever a LoopDecision is created, the one EvaluationResult it is
\* made from already exists and belongs to the decision's experiment.
C9_DecisionAfterEvaluation ==
    [][ \A i \in DOMAIN decisions' :
            i \notin DOMAIN decisions =>
                /\ decisions'[i].evaluation_id \in DOMAIN evaluations
                /\ evaluations[decisions'[i].evaluation_id].experiment
                       = decisions'[i].experiment
      ]_vars

\* decisions exist for two experiments, one of them made from the second
\* evaluation
C9_Witness ==
    /\ Len(decisions) = 2
    /\ decisions[1].experiment # decisions[2].experiment
    /\ \E i \in DOMAIN decisions : decisions[i].evaluation_id = 2

C12_BaselineFloor ==
    LET r == compute_baseline(series, baseline) IN
    Len(WindowValues(series)) < MinSampleSize =>
        /\ ~r.available
        /\ r.reason = "insufficient_data"
        /\ ~(r.center = 0 /\ r.spread = 0)

\* the stored baseline was computed from a series with one data point: it
\* is unavailable and has no values
C12_Witness ==
    /\ Len(WindowValues(series)) = 1
    /\ baseline.sample_size = 1
    /\ ~baseline.available
    /\ baseline.center = Null
    /\ baseline.reason = "insufficient_data"

\* C13 as stated: every caller that consumes an unavailable baseline treats
\* it as "no opinion": the detector gives no opinion, the feed does not
\* report "no_signal", and the chart neither computes a band from the
\* baseline's mean / std taken as 0 nor fails on them.
C13_Original ==
    (consumed.consumer # "none" /\ ~consumed.available) =>
        CASE consumed.consumer = "detector" -> consumed.outcome = "no_opinion"
          [] consumed.consumer = "feed" -> consumed.outcome # "no_signal"
          [] consumed.consumer = "chart" ->
                \/ consumed.outcome = "no_data"
                \/ /\ consumed.outcome = "rendered"
                   /\ ~(consumed.lower = 0 /\ consumed.upper = 0)

\* C14: when the most recent DisconnectDays days of a metric have no data
\* and the baseline has good values, compute_baseline keeps those values
\* unchanged and returns the baseline stale with available = false instead
\* of recomputing it from the degraded window; a stale baseline is never
\* available, and a frozen baseline becomes available again only when the
\* gap is over and the window holds the minimum sample again.
C14_FreezeOnGap ==
    LET r == compute_baseline(series, baseline) IN
    /\ (baseline.center # Null /\ DataGap(series)) =>
          /\ r.center = baseline.center
          /\ r.spread = baseline.spread
          /\ r.sample_size = baseline.sample_size
          /\ r.stale
          /\ ~r.available
    /\ (baseline.stale /\ r.available) =>
          /\ ~DataGap(series)
          /\ Len(WindowValues(series)) >= MinSampleSize
    /\ baseline.stale => (~baseline.available /\ baseline.center # Null)

\* the sensor is disconnected and the stored baseline is frozen at values a
\* recomputation from the degraded window, which still holds the minimum
\* sample, would not give
C14_Witness ==
    /\ DataGap(series)
    /\ baseline.stale
    /\ ~baseline.available
    /\ Len(WindowValues(series)) >= MinSampleSize
    /\ baseline.center # Median(WindowValues(series))

\* dispatches under the keys 1..k that were executed or skipped
RECURSIVE DispatchesSettled(_)
DispatchesSettled(k) ==
    IF k = 0 THEN 0
    ELSE executed[k] + skipped[k] + DispatchesSettled(k - 1)

\* C15: however the replicas dispatch, duplicate and retry the job, at most
\* one execution takes place per idempotency key, there is at most one
\* JobRun row per key, and every other dispatch under that key that has
\* gone through the wrapper was skipped.
C15_OneExecutionPerKey ==
    /\ \A k \in Buckets :
          /\ executed[k] <= 1
          /\ Cardinality({r \in Replicas : rpc[r] = "run" /\ rkey[r] = k})
                 + executed[k] <= 1
          /\ executed[k] = 1 => jobRuns[k] \in {"completed", "failed"}
    /\ (\A r \in Replicas : rpc[r] = "idle") =>
          dispatched = DispatchesSettled(MaxBucket)

\* the run under one key failed, a retry and a concurrent duplicate under
\* the same key were both skipped
C15_Witness ==
    \E k \in Buckets :
        /\ jobRuns[k] = "failed"
        /\ executed[k] = 1
        /\ skipped[k] = 2

C17_FullRecompute ==
    /\ candidates = AttributionResult(attrInputs)
    /\ \A d \in candidates :
          \E c \in attrInputs :
              /\ c.exposure_key = d.exposure_key
              /\ c.p = d.p
              /\ c.effect_size = d.effect_size
              /\ c.sample_size = d.sample_size

\* a candidate of the first run has gone after a later run whose window has
\* no data for its exposure, while other candidates are stored
C17_Witness ==
    /\ memo.taken
    /\ candidates # {}
    /\ \E d \in memo.candidates :
          \A c \in attrInputs : c.exposure_key # d.exposure_key

\* C18 as stated: a comparison that passes the FDR correction and fails the
\* minimum sample-size guardrail is still among the run's candidates,
\* labelled "preliminary" and with reduced confidence.
C18_Original ==
    \A c \in attrInputs :
        (c.sample_size < MinAttributionSample
            /\ c.p * Cardinality(attrInputs) <= PRank(c, attrInputs) * Alpha) =>
            \E d \in candidates :
                /\ d.exposure_key = c.exposure_key
                /\ "preliminary" \in d.guardrail_labels
                /\ d.confidence < d.confidence_raw

\* C19: the candidates a run accepts are within the Benjamini-Hochberg
\* bound over all m comparisons of that run: the largest accepted p-value,
\* of rank k among all comparisons, satisfies p * m <= k * alpha; and adding
\* comparisons without effect (p above alpha) to the run never gives more
\* accepted candidates.
C19_FdrBound ==
    /\ \A d \in candidates :
          \E c \in attrInputs :
              /\ d.p <= c.p
              /\ c.p * Cardinality(attrInputs) <= PRank(c, attrInputs) * Alpha
    /\ \A more \in ComparisonSets :
          (attrInputs \subseteq more /\ \A c \in more \ attrInputs : c.p > Alpha) =>
              Cardinality(AttributionResult(more)) <= Cardinality(candidates)

\* a run of three comparisons, two of them without effect, does not accept
\* the third although its raw p-value is below alpha and it has the minimum
\* sample size
C19_Witness ==
    /\ Cardinality(attrInputs) = 3
    /\ candidates = {}
    /\ \E c \in attrInputs :
          /\ c.p <= Alpha
          /\ c.sample_size >= MinAttributionSample

GradeRank(g) == CASE g = "A" -> 4 [] g = "B" -> 3 [] g = "C" -> 2 [] g = "D" -> 1

\* C20: of two graded items with the same sample_size and coverage, the one
\* with strictly higher confidence never has a strictly lower grade.
C20_GradeMonotone ==
    \A i, j \in DOMAIN graded :
        (/\ graded[i].sample_size = graded[j].sample_size
         /\ graded[i].coverage = graded[j].coverage
         /\ graded[i].confidence > graded[j].confidence) =>
            GradeRank(graded[i].grade) >= GradeRank(graded[j].grade)

\* two items with the same sample size and coverage were graded, the one
\* with confidence above the grade-A threshold A, the other one B
C20_Witness ==
    /\ Len(graded) = 2
    /\ graded[1].sample_size = graded[2].sample_size
    /\ graded[1].coverage = graded[2].coverage
    /\ graded[1].confidence > 8
    /\ graded[1].grade = "A"
    /\ graded[2].grade = "B"

(* C21: every text that reached the user uses wording no stronger than its *)
(* evidence grade allows (a text that does is discarded).  Violated: insight *)
(* and narrative creation never validate the wording.                       *)
C21_Original ==
    \A t \in shown : validate_language(t.grade, t.strength)

\* the page shows the silence message
FeedSilent == ~loading /\ insights = 0

\* which of the three kinds of silence a title tells the user
SilenceKind(title) ==
    CASE title = "Nothing stands out yet" -> "nothing_happened"
      [] title \in {"No wearable connected yet", "Waiting for recent data",
                    "Baseline still forming"} -> "could_not_tell"
      [] OTHER -> "unspecified"

(* C22: when the feed shows no finding, what it shows tells the three kinds *)
(* of silence apart: "nothing happened" is shown only when the feed was      *)
(* fetched and nothing was withheld, a failed feed request is shown as       *)
(* "could not tell", and withheld output is shown as neither.  Violated: a   *)
(* failed feed request can show "Nothing stands out yet", and no silence     *)
(* state stands for withheld output.                                         *)
C22_Original ==
    FeedSilent =>
      LET kind == SilenceKind(SilenceStateMessage(silenceState))
      IN /\ kind = "nothing_happened" => lastLoad.feedOk /\ ~lastLoad.withheld
         /\ ~lastLoad.feedOk => kind = "could_not_tell"
         /\ lastLoad.feedOk /\ lastLoad.withheld =>
               kind \notin {"nothing_happened", "could_not_tell"}

\* determineSilenceState was called by the last loadInsights
SilenceDetermined ==
    lastLoad.loaded /\ ~(lastLoad.feedOk /\ lastLoad.items # 0)

(* C29: determineSilenceState answers "no_signal" only when the provider    *)
(* status and the metric series were both fetched, the provider is          *)
(* connected, a point lies within the last 7 days and the baseline is       *)
(* available; when either request fails it answers "no_provider" or         *)
(* "no_recent_data".                                                        *)
C29_NoSignalOnlyWhenKnown ==
    SilenceDetermined =>
      /\ silenceState = "no_signal" =>
            /\ lastLoad.providerStatus.ok
            /\ lastLoad.providerStatus.connected
            /\ lastLoad.metricResponse.ok
            /\ \E a \in lastLoad.metricResponse.ages : a <= RecentDays
            /\ lastLoad.metricResponse.available
      /\ (~lastLoad.providerStatus.ok \/ ~lastLoad.metricResponse.ok) =>
            silenceState \in {"no_provider", "no_recent_data"}

C29_Witness ==
    /\ SilenceDetermined
    /\ lastLoad.providerStatus.ok
    /\ lastLoad.providerStatus.connected
    /\ ~lastLoad.metricResponse.ok
    /\ lastLoad.metricResponse.available
    /\ lastLoad.metricResponse.ages # {}
    /\ silenceState = "no_recent_data"

RunItemSet == {RunItems[i] : i \in 1..Len(RunItems)}

C24_Original ==
    \A u \in Users :
       lastAnalysis[u].op # "none" => lastAnalysis[u].consent = "granted"

(* C25: detectors and attribution run only in the scheduled per-user daily  *)
(* job, never inside an ingestion or other user request.  Violated: the     *)
(* "Run Loop" and driver-refresh requests run them inline.                  *)
C25_Original ==
    \A e \in executions :
       e.op \in {"run_detectors", "run_attribution"} => e.path = "scheduled_job"

(* C26: while the consent form is shown, the submit button is disabled       *)
(* exactly while a box is unchecked or a submission is in flight, and every  *)
(* createConsent request was issued with all four boxes checked.             *)
C26_SubmitNeedsAllBoxes ==
    /\ FormRendered =>
          (SubmitDisabled <=> (submitting \/ \E k \in ConsentKeys : ~consentBoxes[k]))
    /\ \A c \in apiCalls : c.api = "createConsent" => c.allChecked
    /\ pagePc \in {"createConsent", "completeOnboarding"} => submitting

C26_Witness ==
    /\ FormRendered
    /\ submitting
    /\ \E k \in ConsentKeys : ~consentBoxes[k]
    /\ \E c \in apiCalls : c.api = "createConsent"

\* the calls of a handleSubmit that ran to its navigate('/connect')
BothSucceeded ==
    <<[api |-> "createConsent", result |-> "ok"],
      [api |-> "completeOnboarding", result |-> "ok"]>>

C28_NoUserNoCalls ==
    /\ authUser = "null" /\ route # "none" => route = "/login" /\ apiCalls = {}
    /\ \A c \in apiCalls : c.user # "null"

C28_Witness ==
    /\ authUser = "null"
    /\ route = "/login"

\* the step is the response interceptor handling a 401
Handles401 == request.state = "in_flight" /\ request'.status = 401

\* the step sends a request
Sends == request.state # "in_flight" /\ request'.state = "in_flight"

(* C30: when a response has status 401, both accessToken and user_id are    *)
(* removed from localStorage, the location becomes /login and the error is  *)
(* rejected to the caller; a public-mode request sent after that does not   *)
(* carry the removed user_id.  Violated: a caller that passes user_id       *)
(* itself still sends the removed id until the page is replaced.            *)
C30_Original ==
    [][/\ Handles401 =>
             /\ request'.state = "rejected"
             /\ lsAccessToken' = "null"
             /\ lsUserId' = "null"
             /\ location' = "/login"
       /\ Sends /\ authMode = "public" /\ clearedUser # "null" =>
             request'.user_id # clearedUser]_vars

====
